---- MODULE Spec2Model ----
(***************************************************************************)
(* Model of the Online Code graph decoder, src/C/graph.c.                  *)
(*                                                                         *)
(* The oc_graph structure is the record `graph`; the codec handed to       *)
(* oc_graph_init is the record `codec`; the file-static pool state is      *)
(* `ouser` and `null_ring`.  Length-prefixed int arrays [k, e1..ek] are    *)
(* sequences <<e1, .., ek>>; linked lists of oc_uni_block cells (n-edge    *)
(* lists, the pending queue, the solved list) are sequences of the cells'  *)
(* values, head first.  A null int* is the sequence NULL.                  *)
(***************************************************************************)
EXTENDS Integers, Sequences, FiniteSets, TLC

\* ------------------------------------------------------------------ bounds
MaxM == 2           \* largest mblocks handed to oc_graph_init
MaxA == 2           \* largest ablocks handed to oc_graph_init
MaxQ == 2           \* largest q (aux nodes per message) of the codec
MaxDeg == 2         \* largest number of down-edges of a check block
MaxOverRelease == 1 \* how far below zero the pool user counter may be driven

\* fudge, in tenths (1.0 is rejected by oc_graph_init), and e in hundredths
Fudges == {10, 15}
Epsilons == {1}

\* -------------------------------------------------------- program constants
STEPPING == 1

\* A null pointer to an int array; no array of the program holds a negative entry.
NULL == <<-1>>

\* ------------------------------------------------------------------ helpers
Range(s) == {s[i] : i \in 1..Len(s)}

RemoveAt(s, k) == [i \in 1..(Len(s) - 1) |-> IF i < k THEN s[i] ELSE s[i + 1]]

Reverse(s) == [i \in 1..Len(s) |-> s[Len(s) + 1 - i]]

MinOf(S) == CHOOSE x \in S : \A y \in S : x <= y

\* number of positions of s holding x
Occurrences(s, x) == Cardinality({i \in 1..Len(s) : s[i] = x})

RECURSIVE SetToSeq(_)
SetToSeq(S) == IF S = {} THEN <<>> ELSE LET x == MinOf(S) IN <<x>> \o SetToSeq(S \ {x})

VARIABLES
  graph,        \* the oc_graph structure
  codec,        \* the codec parameters the graph was initialised from
  ouser,        \* static int ouser: graphs depending on the pool
  null_ring,    \* static null_ring # NULL: the pool ring exists
  solved_list,  \* *solved_list as left by the last oc_graph_resolve
  rv,           \* return value of the last call
  last_call,    \* name of the last call
  emitted,      \* history: how often each node was put on a solved list
  decommissioned, \* history: how often oc_graph_resolve called oc_decommission_node per node
  ingested      \* history: the down-edge lists of the check blocks accepted so far

vars == <<graph, codec, ouser, null_ring, solved_list, rv, last_call, emitted, decommissioned,
          ingested>>

\* ------------------------------------------------------------------ state
\* an oc_graph before oc_graph_init: nothing allocated
ZeroGraph ==
  [mblocks |-> 0, ablocks |-> 0, coblocks |-> 0, nodes |-> 0, node_space |-> 0,
   unsolved_count |-> 0, done |-> 0,
   v_edges |-> <<>>, n_edges |-> <<>>, edge_count |-> <<>>, solved |-> <<>>,
   xor_list |-> <<>>, pending |-> <<>>, aborted |-> FALSE]

NoCodec == [mblocks |-> 0, ablocks |-> 0, coblocks |-> 0, q |-> 0, e |-> 0, auxiliary |-> NULL]

\* a failed assert() aborts the process
Abort(G) == [G EXCEPT !.aborted = TRUE]

\* ------------------------------------------------------------------ edges
oc_create_n_edge(G, upper, lower) ==
  IF G.aborted THEN G
  ELSE IF ~(upper > lower) THEN Abort(G)
  ELSE [G EXCEPT !.n_edges[lower] = <<upper>> \o @]

\* faulty variant of oc_push_pending: the entry goes to the head of the queue
oc_push_pending_front(G, value) ==
  IF G.aborted THEN G ELSE [G EXCEPT !.pending = <<value>> \o @]

oc_push_pending(G, value) ==
  IF G.aborted THEN G ELSE [G EXCEPT !.pending = Append(@, value)]

oc_flush_pending(G) == [G EXCEPT !.pending = <<>>]

\* faulty variant of oc_delete_n_edge: every cell naming upper is unlinked
oc_delete_n_edge_all_cells(G, upper, lower, decrement) ==
  IF G.aborted THEN G
  ELSE IF ~(upper > lower /\ upper >= G.mblocks) THEN Abort(G)
  ELSE IF decrement # 0 /\ G.edge_count[upper - G.mblocks] = 0 THEN Abort(G)
  ELSE
    LET G1 == IF decrement # 0
              THEN [G EXCEPT !.edge_count[upper - G.mblocks] = @ - 1]
              ELSE G
        cells == G1.n_edges[lower]
    IN IF \A i \in 1..Len(cells) : cells[i] # upper THEN Abort(G1)
       ELSE [G1 EXCEPT !.n_edges[lower] = SelectSeq(cells, LAMBDA x : x # upper)]

oc_delete_n_edge(G, upper, lower, decrement) ==
  IF G.aborted THEN G
  ELSE IF ~(upper > lower /\ upper >= G.mblocks) THEN Abort(G)
  ELSE IF decrement # 0 /\ G.edge_count[upper - G.mblocks] = 0 THEN Abort(G)
  ELSE
    LET G1 == IF decrement # 0
              THEN [G EXCEPT !.edge_count[upper - G.mblocks] = @ - 1]
              ELSE G
        cells == G1.n_edges[lower]
        hits == {i \in 1..Len(cells) : cells[i] = upper}
    IN IF hits = {} THEN Abort(G1)
       ELSE [G1 EXCEPT !.n_edges[lower] = RemoveAt(cells, MinOf(hits))]

\* faulty variant of oc_decommission_node: the up-edges are left in place
oc_decommission_node_slot_only(G, node) ==
  IF G.aborted THEN G
  ELSE IF node < G.mblocks THEN Abort(G)
  ELSE [G EXCEPT !.v_edges[node - G.mblocks] = NULL]

\* the loop of oc_decommission_node: i runs from down[0] to 1
RECURSIVE decommission_loop(_, _, _, _)
decommission_loop(G, node, down, i) ==
  IF i = 0 THEN G
  ELSE decommission_loop(oc_delete_n_edge(G, node, down[i], 0), node, down, i - 1)

\* faulty variant of oc_decommission_node: the slot is not nulled
oc_decommission_node_keeps_slot(G, node) ==
  IF G.aborted THEN G
  ELSE IF node < G.mblocks THEN Abort(G)
  ELSE
    LET down == G.v_edges[node - G.mblocks]
    IN IF down = NULL THEN G ELSE decommission_loop(G, node, down, Len(down))

oc_decommission_node(G, node) ==
  IF G.aborted THEN G
  ELSE IF node < G.mblocks THEN Abort(G)
  ELSE
    LET down == G.v_edges[node - G.mblocks]
        G1 == [G EXCEPT !.v_edges[node - G.mblocks] = NULL]
    IN IF down = NULL THEN G1 ELSE decommission_loop(G1, node, down, Len(down))

\* the loop of oc_aux_rule: the recipe's entries in order
RECURSIVE aux_rule_loop(_, _, _, _)
aux_rule_loop(G, aux_node, p, i) ==
  IF i > Len(p) THEN G
  ELSE aux_rule_loop(oc_delete_n_edge(G, aux_node, p[i], 0), aux_node, p, i + 1)

\* faulty variant of oc_aux_rule: the reciprocal up-edges are not deleted
oc_aux_rule_keeps_edges(G, aux_node) ==
  IF G.aborted THEN G
  ELSE IF ~(aux_node >= G.mblocks /\ aux_node < G.coblocks) THEN Abort(G)
  ELSE [G EXCEPT !.solved[aux_node] = TRUE,
                 !.xor_list[aux_node] = G.v_edges[aux_node - G.mblocks],
                 !.v_edges[aux_node - G.mblocks] = NULL]

\* faulty variant of oc_aux_rule: the v-edge slot is not emptied
oc_aux_rule_keeps_slot(G, aux_node) ==
  IF G.aborted THEN G
  ELSE IF ~(aux_node >= G.mblocks /\ aux_node < G.coblocks) THEN Abort(G)
  ELSE
    LET p == G.v_edges[aux_node - G.mblocks]
        G1 == [G EXCEPT !.solved[aux_node] = TRUE,
                        !.xor_list[aux_node] = p]
    IN IF p = NULL THEN Abort(G1) ELSE aux_rule_loop(G1, aux_node, p, 1)

\* faulty variant of oc_aux_rule: the recipe is not installed
oc_aux_rule_no_recipe(G, aux_node) ==
  IF G.aborted THEN G
  ELSE IF ~(aux_node >= G.mblocks /\ aux_node < G.coblocks) THEN Abort(G)
  ELSE
    LET p == G.v_edges[aux_node - G.mblocks]
        G1 == [G EXCEPT !.solved[aux_node] = TRUE,
                        !.v_edges[aux_node - G.mblocks] = NULL]
    IN IF p = NULL THEN Abort(G1) ELSE aux_rule_loop(G1, aux_node, p, 1)

oc_aux_rule(G, aux_node) ==
  IF G.aborted THEN G
  ELSE IF ~(aux_node >= G.mblocks /\ aux_node < G.coblocks) THEN Abort(G)
  ELSE
    LET p == G.v_edges[aux_node - G.mblocks]
        G1 == [G EXCEPT !.solved[aux_node] = TRUE,
                        !.xor_list[aux_node] = p,
                        !.v_edges[aux_node - G.mblocks] = NULL]
    IN IF p = NULL THEN Abort(G1) ELSE aux_rule_loop(G1, aux_node, p, 1)

\* faulty variant of the loop of oc_cascade: a node is queued only when its
\* count reaches 0
RECURSIVE cascade_loop_zero_only(_, _, _)
cascade_loop_zero_only(G, node, p) ==
  IF G.aborted \/ p = <<>> THEN G
  ELSE
    LET to == Head(p) IN
    IF to = node \/ G.edge_count[to - G.mblocks] = 0 THEN Abort(G)
    ELSE
      LET G1 == [G EXCEPT !.edge_count[to - G.mblocks] = @ - 1]
          G2 == IF G1.edge_count[to - G.mblocks] < 1 THEN oc_push_pending(G1, to) ELSE G1
      IN cascade_loop_zero_only(G2, node, Tail(p))

\* the loop of oc_cascade over the n-edge cells of node
RECURSIVE cascade_loop(_, _, _)
cascade_loop(G, node, p) ==
  IF G.aborted \/ p = <<>> THEN G
  ELSE
    LET to == Head(p) IN
    IF to = node \/ G.edge_count[to - G.mblocks] = 0 THEN Abort(G)
    ELSE
      LET G1 == [G EXCEPT !.edge_count[to - G.mblocks] = @ - 1]
          G2 == IF G1.edge_count[to - G.mblocks] < 2 THEN oc_push_pending(G1, to) ELSE G1
      IN cascade_loop(G2, node, Tail(p))

\* faulty variant of oc_cascade: only the first n-edge cell is visited
oc_cascade_first_only(G, node) ==
  IF G.aborted THEN G
  ELSE IF ~(node < G.coblocks) THEN Abort(G)
  ELSE cascade_loop(G, node, IF G.n_edges[node] = <<>> THEN <<>> ELSE <<Head(G.n_edges[node])>>)

oc_cascade(G, node) ==
  IF G.aborted THEN G
  ELSE IF ~(node < G.coblocks) THEN Abort(G)
  ELSE cascade_loop(G, node, G.n_edges[node])

\* faulty variant of oc_propagate_xor: the down-edges are not copied
oc_propagate_xor_xors_only(xors, edges) == xors

\* faulty variant of oc_propagate_xor: the down-edges are copied first
oc_propagate_xor_edges_first(xors, edges) == edges \o xors

oc_propagate_xor(xors, edges) == xors \o edges

\* ------------------------------------------------------------------ init
\* check_space = fudge * (1 + q * e) * mblocks, truncated to int
check_space_of(C, fudge) == (fudge * (100 + C.q * C.e) * C.mblocks) \div 1000

\* 1st stage: up-edges of the messages, edge_count += 2 per map entry
RECURSIVE init_stage1(_, _, _)
init_stage1(G, C, k) ==
  IF G.aborted \/ k > C.mblocks * C.q THEN G
  ELSE
    LET msg == (k - 1) \div C.q
        aux_temp == C.auxiliary[k]
        G1 == oc_create_n_edge(G, aux_temp, msg)
    IN IF ~(aux_temp - C.mblocks >= 0 /\ aux_temp - C.mblocks < C.ablocks) THEN Abort(G1)
       ELSE init_stage1([G1 EXCEPT !.edge_count[aux_temp - C.mblocks] = @ + 2], C, k + 1)

\* 2nd stage: a zeroed down-edge array of edge_count >> 1 entries per aux node
init_stage2(G, C) ==
  [G EXCEPT !.v_edges = [u \in DOMAIN G.v_edges |->
      IF u < C.ablocks THEN [i \in 1..(G.edge_count[u] \div 2) |-> 0] ELSE G.v_edges[u]]]

\* 3rd stage: p[temp - p[0]] = msg with temp = edge_count--
RECURSIVE init_stage3(_, _, _)
init_stage3(G, C, k) ==
  IF G.aborted \/ k > C.mblocks * C.q THEN G
  ELSE
    LET msg == (k - 1) \div C.q
        aux_temp == C.auxiliary[k] - C.mblocks
        p == G.v_edges[aux_temp]
        temp == G.edge_count[aux_temp]
    IN init_stage3([G EXCEPT !.edge_count[aux_temp] = @ - 1,
                             !.v_edges[aux_temp][temp - Len(p)] = msg], C, k + 1)

\* the graph oc_graph_init builds once the parameters are accepted
InitialGraph(C, fudge) ==
  LET check_space == check_space_of(C, fudge)
      G0 == [mblocks |-> C.mblocks, ablocks |-> C.ablocks, coblocks |-> C.coblocks,
             nodes |-> C.coblocks, node_space |-> C.coblocks + check_space,
             unsolved_count |-> C.mblocks, done |-> 0,
             v_edges |-> [u \in 0..(C.ablocks + check_space - 1) |-> NULL],
             n_edges |-> [l \in 0..(C.coblocks - 1) |-> <<>>],
             edge_count |-> [u \in 0..(C.ablocks + check_space - 1) |-> 0],
             solved |-> [l \in 0..(C.coblocks - 1) |-> FALSE],
             xor_list |-> [n \in 0..(C.coblocks + check_space - 1) |-> NULL],
             pending |-> <<>>, aborted |-> FALSE]
  IN init_stage3(init_stage2(init_stage1(G0, C, 1), C), C, 1)

\* faulty variant of oc_graph_init: the pool is taken before the parameters
\* are checked
oc_graph_init_pool_first(G, C, fudge, users, ring) ==
  IF C.mblocks < 1 \/ C.ablocks < 1 \/ C.auxiliary = NULL \/ fudge <= 10
  THEN [g |-> G, rc |-> 1, ouser |-> users + 1, null_ring |-> TRUE]
  ELSE [g |-> InitialGraph(C, fudge), rc |-> 0, ouser |-> users + 1, null_ring |-> TRUE]

\* oc_graph_init: [g, rc, ouser, null_ring]; rc is 0 or "non-zero" (1)
oc_graph_init(G, C, fudge, users, ring) ==
  IF C.mblocks < 1 \/ C.ablocks < 1 \/ C.auxiliary = NULL \/ fudge <= 10
  THEN [g |-> G, rc |-> 1, ouser |-> users, null_ring |-> ring]
  ELSE [g |-> InitialGraph(C, fudge), rc |-> 0, ouser |-> users + 1, null_ring |-> TRUE]

\* ------------------------------------------------------------------ ingest
\* second scan of oc_graph_check_block: solved entries go to the xor list and
\* are overwritten by the last entry, unsolved ones get an up-edge
RECURSIVE prune_loop(_, _, _, _, _, _, _)
prune_loop(G, node, v, ep, end, count, xp) ==
  IF count = 0 \/ G.aborted THEN [g |-> G, v |-> SubSeq(v, 1, end), xp |-> xp]
  ELSE
    LET tmp == v[ep] IN
    IF G.solved[tmp]
    THEN prune_loop(G, node, [v EXCEPT ![ep] = v[end]], ep, end - 1, count - 1, Append(xp, tmp))
    ELSE prune_loop(oc_create_n_edge(G, node, tmp), node, v, ep + 1, end, count - 1, xp)

\* faulty variant of install_check_block: edge_count is the unpruned length
install_check_block_full_count(G, node, v_edges) ==
  LET r == prune_loop(G, node, v_edges, 1, Len(v_edges), Len(v_edges), <<node>>)
  IN [r.g EXCEPT !.xor_list[node] = r.xp,
                 !.v_edges[node - G.mblocks] = r.v,
                 !.edge_count[node - G.mblocks] = Len(v_edges)]

\* lines 267-322: the node's xor list, its pruned down-edges and edge count
install_check_block(G, node, v_edges) ==
  LET r == prune_loop(G, node, v_edges, 1, Len(v_edges), Len(v_edges), <<node>>)
  IN [r.g EXCEPT !.xor_list[node] = r.xp,
                 !.v_edges[node - G.mblocks] = r.v,
                 !.edge_count[node - G.mblocks] = Len(r.v)]

\* faulty variant of oc_graph_check_block: a call that finds the node space
\* exhausted also drops the pending queue
oc_graph_check_block_full_flush(G, v_edges) ==
  LET node == G.nodes
      G1 == [G EXCEPT !.nodes = @ + 1]
  IN
  IF node >= G.node_space THEN [g |-> oc_flush_pending(G1), rc |-> -1]
  ELSE IF \E i \in 1..Len(v_edges) : ~(v_edges[i] < G.coblocks) THEN [g |-> Abort(G1), rc |-> -1]
  ELSE [g |-> oc_push_pending(install_check_block(G1, node, v_edges), node), rc |-> node]

\* oc_graph_check_block: [g, rc]
oc_graph_check_block(G, v_edges) ==
  LET node == G.nodes
      G1 == [G EXCEPT !.nodes = @ + 1]
  IN
  IF node >= G.node_space THEN [g |-> G1, rc |-> -1]
  ELSE IF \E i \in 1..Len(v_edges) : ~(v_edges[i] < G.coblocks) THEN [g |-> Abort(G1), rc |-> -1]
  ELSE [g |-> oc_push_pending(install_check_block(G1, node, v_edges), node), rc |-> node]

\* ------------------------------------------------------------------ resolve
\* index of the first unsolved entry of a down-edge list, 0 when there is none
FirstUnsolved(G, ep) ==
  LET un == {i \in 1..Len(ep) : ~G.solved[ep[i]]} IN IF un = {} THEN 0 ELSE MinOf(un)

\* faulty variant of lines 736-752: an aux node counts as a message
after_solve_counts_aux(R, G, to) ==
  IF G.unsolved_count - 1 = 0
  THEN [R EXCEPT !.g = oc_flush_pending([G EXCEPT !.unsolved_count = 0, !.done = 1]),
                 !.stop = TRUE]
  ELSE [R EXCEPT !.g = oc_cascade([G EXCEPT !.unsolved_count = @ - 1], to),
                 !.stop = (STEPPING # 0)]

\* faulty variant of lines 736-752: done is left to the next call
after_solve_late_done(R, G, to) ==
  IF to < G.mblocks
  THEN [R EXCEPT !.g = oc_cascade([G EXCEPT !.unsolved_count = @ - 1], to),
                 !.stop = (STEPPING # 0)]
  ELSE [R EXCEPT !.g = oc_cascade(oc_push_pending(G, to), to),
                 !.stop = (STEPPING # 0)]

\* faulty variant of lines 736-752: a solved aux node is not queued
after_solve_aux_not_queued(R, G, to) ==
  IF to < G.mblocks
  THEN IF G.unsolved_count - 1 = 0
       THEN [R EXCEPT !.g = oc_flush_pending([G EXCEPT !.unsolved_count = 0, !.done = 1]),
                      !.stop = TRUE]
       ELSE [R EXCEPT !.g = oc_cascade([G EXCEPT !.unsolved_count = @ - 1], to),
                      !.stop = (STEPPING # 0)]
  ELSE [R EXCEPT !.g = oc_cascade(G, to),
                 !.stop = (STEPPING # 0)]

\* lines 736-752: `to` was solved; update unsolved_count, decide done, cascade
after_solve(R, G, to) ==
  IF to < G.mblocks
  THEN IF G.unsolved_count - 1 = 0
       THEN [R EXCEPT !.g = oc_flush_pending([G EXCEPT !.unsolved_count = 0, !.done = 1]),
                      !.stop = TRUE]
       ELSE [R EXCEPT !.g = oc_cascade([G EXCEPT !.unsolved_count = @ - 1], to),
                      !.stop = (STEPPING # 0)]
  ELSE [R EXCEPT !.g = oc_cascade(oc_push_pending(G, to), to),
                 !.stop = (STEPPING # 0)]

\* the propagation rule, lines 685-752: `from` solves its one unsolved down-edge
propagate(R, G, from) ==
  LET ep == G.v_edges[from - G.mblocks]
      i == IF ep = NULL THEN 0 ELSE FirstUnsolved(G, ep)
  IN
  IF ep = NULL \/ i = 0 THEN [R EXCEPT !.g = Abort(G), !.stop = TRUE]
  ELSE
    LET to == ep[i]
        xor_count == Len(ep)
        reduced == SubSeq([ep EXCEPT ![i] = ep[xor_count]], 1, xor_count - 1)
        G1 == [G EXCEPT !.v_edges[from - G.mblocks] = reduced]
        G2 == oc_delete_n_edge(G1, from, to, 1)
    IN
    IF G2.aborted \/ G2.xor_list[to] # NULL \/ G2.xor_list[from] = NULL \/ G2.solved[to]
    THEN [R EXCEPT !.g = Abort(G2), !.stop = TRUE]
    ELSE
      LET p == oc_propagate_xor(G2.xor_list[from], G2.v_edges[from - G.mblocks])
          G3 == [G2 EXCEPT !.solved[to] = TRUE, !.xor_list[to] = p]
          G4 == oc_decommission_node(G3, from)
      IN after_solve([R EXCEPT !.solved_head = Append(@, to), !.decom = Append(@, from)],
                     G4, to)

\* line 654: a check node, or an aux node that is already solved
spent_node_check_only(G, from) == from >= G.coblocks

spent_node(G, from) == from >= G.coblocks \/ G.solved[from]

\* faulty variant of the loop body: an entry with more than one unsolved
\* down-edge is put back at the tail of the queue and the call returns
resolve_step_requeue(R) ==
  LET from == Head(R.g.pending)
      G == [R.g EXCEPT !.pending = Tail(@)]
  IN
  IF from < G.mblocks THEN [R EXCEPT !.g = Abort(G), !.stop = TRUE]
  ELSE
    LET count_unsolved == G.edge_count[from - G.mblocks] IN
    IF count_unsolved > 1 THEN [R EXCEPT !.g = oc_push_pending(G, from), !.stop = TRUE]
    ELSE IF count_unsolved = 0
    THEN IF spent_node(G, from)
         THEN [R EXCEPT !.g = oc_decommission_node(G, from), !.decom = Append(@, from)]
         ELSE [R EXCEPT !.g = oc_cascade(oc_aux_rule(G, from), from),
                        !.solved_head = Append(@, from),
                        !.stop = (STEPPING # 0)]
    ELSE IF count_unsolved = 1
    THEN IF from < G.coblocks /\ ~G.solved[from]
         THEN [R EXCEPT !.g = G]
         ELSE propagate(R, G, from)
    ELSE [R EXCEPT !.g = G, !.stop = (STEPPING # 0)]

\* one iteration of the while loop of oc_graph_resolve: pops one pending node
resolve_step(R) ==
  LET from == Head(R.g.pending)
      G == [R.g EXCEPT !.pending = Tail(@)]
  IN
  IF from < G.mblocks THEN [R EXCEPT !.g = Abort(G), !.stop = TRUE]
  ELSE
    LET count_unsolved == G.edge_count[from - G.mblocks] IN
    IF count_unsolved > 1 THEN [R EXCEPT !.g = G]
    ELSE IF count_unsolved = 0
    THEN IF spent_node(G, from)
         THEN [R EXCEPT !.g = oc_decommission_node(G, from), !.decom = Append(@, from)]
         ELSE [R EXCEPT !.g = oc_cascade(oc_aux_rule(G, from), from),
                        !.solved_head = Append(@, from),
                        !.stop = (STEPPING # 0)]
    ELSE IF count_unsolved = 1
    THEN IF from < G.coblocks /\ ~G.solved[from]
         THEN [R EXCEPT !.g = G]
         ELSE propagate(R, G, from)
    ELSE [R EXCEPT !.g = G, !.stop = (STEPPING # 0)]

\* faulty variant of the while loop: it goes on after a node is solved, as
\* with STEPPING 0
RECURSIVE resolve_loop_drain(_)
resolve_loop_drain(R) ==
  IF R.g.aborted \/ R.g.pending = <<>> THEN R ELSE resolve_loop_drain(resolve_step(R))

\* while (NULL != graph->phead)
RECURSIVE resolve_loop(_)
resolve_loop(R) ==
  IF R.stop \/ R.g.aborted \/ R.g.pending = <<>> THEN R ELSE resolve_loop(resolve_step(R))

\* the while loop again, keeping every intermediate state: element i + 1 is
\* the loop state after the i-th pop
RECURSIVE resolve_pops(_)
resolve_pops(R) ==
  IF R.stop \/ R.g.aborted \/ R.g.pending = <<>> THEN <<R>>
  ELSE <<R>> \o resolve_pops(resolve_step(R))

\* oc_graph_resolve up to the label finish: [g, solved_head, decom, stop]
resolve_body(G) ==
  LET R0 == [g |-> G, solved_head |-> <<>>, decom |-> <<>>, stop |-> FALSE] IN
  IF G.pending = <<>> THEN R0
  ELSE IF G.unsolved_count = 0 THEN [R0 EXCEPT !.g = [G EXCEPT !.done = 1]]
  ELSE resolve_loop(R0)

\* oc_graph_resolve: the body, then finish: the pool is released when the
\* user counter, decremented on every call that ends done, reaches zero
oc_graph_resolve(G, users, ring) ==
  LET R == resolve_body(G)
      dec == R.g.done # 0 /\ ~R.g.aborted
      users1 == IF dec THEN users - 1 ELSE users
      release == dec /\ users1 = 0
  IN [g |-> IF release /\ ~ring THEN Abort(R.g) ELSE R.g,
      solved_list |-> R.solved_head,
      decom |-> R.decom,
      rc |-> R.g.done,
      ouser |-> users1,
      null_ring |-> IF release THEN FALSE ELSE ring]

\* ------------------------------------------------------------------ inputs
\* auxiliary maps: q aux-node indices per message, flattened
AuxMaps(m, a, q) == [1..(m * q) -> m..(m + a - 1)]

Codecs ==
  {[mblocks |-> m, ablocks |-> a, coblocks |-> m + a, q |-> q, e |-> e, auxiliary |-> x] :
     m \in {0}, a \in {0}, q \in {1}, e \in Epsilons, x \in {NULL}}
  \cup UNION {UNION {UNION {UNION {
     {[mblocks |-> m, ablocks |-> a, coblocks |-> m + a, q |-> q, e |-> e, auxiliary |-> x] :
        x \in AuxMaps(m, a, q) \cup {NULL}} :
     e \in Epsilons} : q \in 1..MaxQ} : a \in 0..MaxA} : m \in 0..MaxM}

\* check blocks: the down-edge lists the codec can hand to the decoder
CheckBlocks(G) ==
  {SetToSeq(D) : D \in {D \in SUBSET (0..(G.coblocks - 1)) : D # {} /\ Cardinality(D) <= MaxDeg}}

Inited == graph.mblocks > 0

Bump(f, s) == [x \in DOMAIN f |-> f[x] + Occurrences(s, x)]

\* ------------------------------------------------------------------ actions
Init ==
  /\ graph = ZeroGraph
  /\ codec = NoCodec
  /\ ouser = 0
  /\ null_ring = FALSE
  /\ solved_list = <<>>
  /\ rv = 0
  /\ last_call = "none"
  /\ emitted = <<>>
  /\ decommissioned = <<>>
  /\ ingested = <<>>

GraphInit ==
  /\ ~Inited
  /\ \E C \in Codecs, fudge \in Fudges :
       LET r == oc_graph_init(graph, C, fudge, ouser, null_ring) IN
       /\ graph' = r.g
       /\ codec' = IF r.rc = 0 THEN C ELSE codec
       /\ ouser' = r.ouser
       /\ null_ring' = r.null_ring
       /\ rv' = r.rc
       /\ emitted' = IF r.rc = 0 THEN [n \in 0..(C.coblocks - 1) |-> 0] ELSE emitted
       /\ decommissioned' = IF r.rc = 0 THEN [n \in C.mblocks..(r.g.node_space - 1) |-> 0]
                            ELSE decommissioned
  /\ last_call' = "init"
  /\ solved_list' = <<>>
  /\ ingested' = <<>>

CheckBlock ==
  /\ Inited
  /\ ~graph.aborted
  /\ graph.nodes < graph.node_space
  /\ \E v \in CheckBlocks(graph) :
       LET r == oc_graph_check_block(graph, v) IN
       /\ graph' = r.g
       /\ rv' = r.rc
       /\ ingested' = IF r.rc >= 0 THEN Append(ingested, v) ELSE ingested
  /\ last_call' = "check_block"
  /\ UNCHANGED <<codec, ouser, null_ring, solved_list, emitted, decommissioned>>

Resolve ==
  /\ Inited
  /\ ~graph.aborted
  /\ ouser > -MaxOverRelease
  /\ LET r == oc_graph_resolve(graph, ouser, null_ring) IN
       /\ graph' = r.g
       /\ solved_list' = r.solved_list
       /\ rv' = r.rc
       /\ ouser' = r.ouser
       /\ null_ring' = r.null_ring
       /\ emitted' = Bump(emitted, r.solved_list)
       /\ decommissioned' = Bump(decommissioned, r.decom)
  /\ last_call' = "resolve"
  /\ UNCHANGED <<codec, ingested>>

Next == GraphInit \/ CheckBlock \/ Resolve

Spec == Init /\ [][Next]_vars

\* ------------------------------------------------------------------ notions
\* the aux nodes and the check nodes ingested so far
Uppers == graph.mblocks..(graph.nodes - 1)

Lowers == 0..(graph.coblocks - 1)

Messages == 0..(graph.mblocks - 1)

\* the current down-edge list of upper node u; empty when the slot is null
DownEdges(G, u) == IF G.v_edges[u - G.mblocks] = NULL THEN <<>> ELSE G.v_edges[u - G.mblocks]

\* number of entries of u's down-edge list that are not solved
UnsolvedEntries(G, u) ==
  Cardinality({i \in 1..Len(DownEdges(G, u)) : ~G.solved[DownEdges(G, u)[i]]})

\* number of n-edge cells, over all lower nodes, that name u
CellsNaming(G, u) ==
  Cardinality({<<l, i>> \in (DOMAIN G.n_edges) \X (1..(G.nodes)) :
                 i <= Len(G.n_edges[l]) /\ G.n_edges[l][i] = u})

AllMessagesSolved == \A m \in Messages : graph.solved[m]

\* ------------------------------------------------------------------ C1
EdgeCountsExact ==
  \A u \in Uppers :
    graph.v_edges[u - graph.mblocks] # NULL
      => graph.edge_count[u - graph.mblocks] = UnsolvedEntries(graph, u)

C2_Reciprocal ==
  Inited =>
    /\ \A l \in Lowers : Range(graph.n_edges[l]) \subseteq Uppers
    /\ \A u \in Uppers : Range(DownEdges(graph, u)) \subseteq Lowers
    /\ \A u \in Uppers, l \in Lowers :
         Occurrences(DownEdges(graph, u), l) = Occurrences(graph.n_edges[l], u)

\* edges were created by init and ingest and removed by the aux rule, the
\* propagation rule and a decommission, and edges remain
C2_Witness ==
  /\ Inited /\ last_call = "resolve"
  /\ \E a \in graph.mblocks..(graph.coblocks - 1) :
       graph.solved[a] /\ graph.v_edges[a - graph.mblocks] = NULL /\ emitted[a] = 1
  /\ \E c \in graph.coblocks..(graph.nodes - 1) : decommissioned[c] >= 1
  /\ \E u \in Uppers : Len(DownEdges(graph, u)) >= 2 /\ CellsNaming(graph, u) >= 2

\* ------------------------------------------------------------------ C3
\* C3: unsolved_count is the number of message nodes that are not solved.
C3_UnsolvedCount ==
  Inited => graph.unsolved_count = Cardinality({m \in Messages : ~graph.solved[m]})

\* an aux node and a message node were solved while another message is unsolved
C3_Witness ==
  /\ Inited
  /\ \E a \in graph.mblocks..(graph.coblocks - 1) : graph.solved[a]
  /\ \E m \in Messages : graph.solved[m]
  /\ graph.unsolved_count >= 1

\* ------------------------------------------------------------------ C4
\* C4: done is set exactly when every message node is solved, and a resolve
\* call returns 1 exactly in that case: the call that solves the last message
\* node sets done and returns it.
C4_DoneIffAllSolved ==
  Inited =>
    /\ (graph.done = 1) <=> AllMessagesSolved
    /\ last_call = "resolve" => ((rv = 1) <=> AllMessagesSolved)

\* the resolve call that solved the last message node returned done
C4_Witness ==
  /\ Inited /\ last_call = "resolve" /\ rv = 1 /\ graph.done = 1
  /\ solved_list # <<>> /\ solved_list[1] \in Messages /\ graph.mblocks >= 2

\* ------------------------------------------------------------------ C5
\* payloads over GF(2): the set of message symbols with coefficient 1
SymDiff(A, B) == (A \ B) \cup (B \ A)

\* a message is its own symbol; an aux node is the XOR of the messages the
\* auxiliary map sends to it, once per map entry
LowerPayload(n) ==
  IF n < codec.mblocks THEN {n}
  ELSE {m \in 0..(codec.mblocks - 1) :
          Cardinality({j \in 1..codec.q : codec.auxiliary[m * codec.q + j] = n}) % 2 = 1}

RECURSIVE XorLowers(_)
XorLowers(s) == IF s = <<>> THEN {} ELSE SymDiff(LowerPayload(Head(s)), XorLowers(Tail(s)))

\* a check node is the XOR of the down-edges it was ingested with
Payload(n) ==
  IF n < codec.coblocks THEN LowerPayload(n) ELSE XorLowers(ingested[n - codec.coblocks + 1])

RECURSIVE XorRecipe(_)
XorRecipe(s) == IF s = <<>> THEN {} ELSE SymDiff(Payload(Head(s)), XorRecipe(Tail(s)))

IsPrefix(s, t) == Len(s) < Len(t) /\ SubSeq(t, 1, Len(s)) = s

Auxes == graph.mblocks..(graph.coblocks - 1)

\* C5: recipe soundness: for every solved message or aux node n, the XOR of
\* the payloads of the nodes listed in xor_list[n] is the payload of n.
C5_RecipeSound ==
  Inited =>
    \A n \in Lowers :
      graph.solved[n] => graph.xor_list[n] # NULL /\ XorRecipe(graph.xor_list[n]) = Payload(n)

\* a node was solved by propagation from a solved aux node, whose own recipe
\* (made by propagation from a check node) its recipe extends
C5_Witness ==
  /\ Inited
  /\ \E a \in Auxes, n \in Lowers :
       /\ graph.solved[a] /\ graph.solved[n]
       /\ graph.xor_list[a][1] >= graph.coblocks
       /\ IsPrefix(graph.xor_list[a], graph.xor_list[n])
  /\ \E n \in Lowers : graph.solved[n] /\ Len(graph.xor_list[n]) >= 3

\* ------------------------------------------------------------------ C6
RecipeIffSolved ==
  Inited =>
    \A n \in Lowers :
      /\ graph.solved[n] <=> graph.xor_list[n] # NULL
      /\ n \notin Range(graph.xor_list[n])

RecipeKept ==
  Inited => \A n \in Lowers : graph.xor_list[n] # NULL => graph'.xor_list[n] = graph.xor_list[n]

\* C6: a message or aux node is solved exactly when it has a recipe; a recipe,
\* once installed, is never replaced; and no recipe lists its own node.
C6_OneRecipe == []RecipeIffSolved /\ [][RecipeKept]_vars

\* recipes of two solved nodes have survived a later solving step
C6_Witness ==
  /\ Inited /\ last_call = "resolve" /\ solved_list # <<>>
  /\ Cardinality({n \in Lowers : graph.solved[n] /\ graph.xor_list[n] # NULL}) >= 3
  /\ \E a \in Auxes : graph.solved[a]

\* ------------------------------------------------------------------ C7
SolvedKept == Inited => \A n \in Lowers : graph.solved[n] => graph'.solved[n]

EmittedOnce == Inited => ~graph.aborted /\ \A n \in Lowers : emitted[n] <= 1

\* C7: a solved flag only ever goes from false to true, no node is put on the
\* emitted solved lists twice, and popping a stale pending entry neither
\* aborts nor solves or emits a node again.
C7_SolvedOnce == []EmittedOnce /\ [][SolvedKept]_vars

\* a stale entry was popped: an aux node that was already solved and emitted
\* came off the queue again and only went through the decommission path
C7_Witness ==
  /\ Inited /\ last_call = "resolve" /\ ~graph.aborted
  /\ \E a \in Auxes : graph.solved[a] /\ emitted[a] = 1 /\ decommissioned[a] >= 1

\* ------------------------------------------------------------------ C8
Decommissioned(G, u) == G.v_edges[u - G.mblocks] = NULL /\ CellsNaming(G, u) = 0

\* C8 (as claimed): once done is set, every aux or check node with no unsolved
\* down-edge is decommissioned: its slot is empty and no n-edge cell names it.
C8_AllSpentDecommissioned ==
  (Inited /\ graph.done = 1) =>
    \A u \in Uppers : UnsolvedEntries(graph, u) = 0 => Decommissioned(graph, u)

\* C8 (amended): once done is set, every message node is solved and every aux
\* or check node the resolver had popped as spent (edge_count 0 on the pop, or
\* just fired by the propagation rule) is decommissioned.
C8_PoppedSpentDecommissioned ==
  (Inited /\ graph.done = 1) =>
    /\ AllMessagesSolved
    /\ \A u \in Uppers : decommissioned[u] >= 1 => Decommissioned(graph, u)
    /\ \E u \in Uppers : decommissioned[u] >= 1

\* done, with a spent node decommissioned and another left as it was
C8_Witness ==
  /\ Inited /\ graph.done = 1
  /\ \E u \in Uppers : decommissioned[u] >= 1 /\ Decommissioned(graph, u)
  /\ \E u \in Uppers : UnsolvedEntries(graph, u) = 0 /\ CellsNaming(graph, u) >= 1

\* ------------------------------------------------------------------ C9
\* the caller's loop: oc_graph_resolve until the queue is empty (or done)
RECURSIVE Drain(_, _)
Drain(G, out) ==
  IF G.pending = <<>> \/ G.done # 0 \/ G.aborted THEN [g |-> G, emitted |-> out]
  ELSE LET R == resolve_body(G) IN Drain(R.g, out \o R.solved_head)

AllSolvedBlocks(G) == {v \in CheckBlocks(G) : \A i \in 1..Len(v) : G.solved[v[i]]}

\* ingesting v and resolving until the queue is empty leaves G as it was,
\* but for the new node, which ends decommissioned
IngestDrainFrame(G, v) ==
  LET r == oc_graph_check_block(G, v)
      d == Drain(r.g, <<>>)
      node == G.nodes
  IN d.g.pending = <<>> =>
       /\ r.rc = node
       /\ ~d.g.aborted
       /\ d.emitted = <<>>
       /\ d.g.solved = G.solved
       /\ \A n \in 0..(G.coblocks - 1) : d.g.xor_list[n] = G.xor_list[n]
       /\ d.g.unsolved_count = G.unsolved_count
       /\ d.g.n_edges = G.n_edges
       /\ \A u \in G.mblocks..(G.nodes - 1) :
            d.g.edge_count[u - G.mblocks] = G.edge_count[u - G.mblocks]
       /\ Decommissioned(d.g, node)
       /\ d.g.edge_count[node - G.mblocks] = 0

CanIngest == Inited /\ ~graph.aborted /\ graph.nodes < graph.node_space

\* C9 (as claimed): from any state, ingesting a check block whose down-edges
\* are all solved and resolving until the queue is empty solves nothing and
\* changes nothing but the new node, which ends decommissioned.
C9_DuplicateBlockFrame ==
  CanIngest => \A v \in AllSolvedBlocks(graph) : IngestDrainFrame(graph, v)

\* C9 (amended): the same, when the pending queue is empty at the ingest.
C9_DuplicateBlockFrameQuiescent ==
  (CanIngest /\ graph.pending = <<>>) =>
    \A v \in AllSolvedBlocks(graph) : IngestDrainFrame(graph, v)

\* an all-solved block was ingested and then popped: its node is decommissioned
\* with nothing emitted, the queue is empty and the graph is not done
C9_Witness ==
  /\ Inited /\ last_call = "resolve" /\ solved_list = <<>> /\ graph.pending = <<>>
  /\ graph.done = 0 /\ graph.nodes > graph.coblocks
  /\ LET node == graph.nodes - 1 IN
       /\ Len(graph.xor_list[node]) = Len(ingested[Len(ingested)]) + 1
       /\ decommissioned[node] = 1
       /\ Decommissioned(graph, node)
       /\ graph.edge_count[node - graph.mblocks] = 0

\* ------------------------------------------------------------------ C10
Without(s, u) == SelectSeq(s, LAMBDA x : x # u)

\* oc_decommission_node on u: nothing changes when the slot is empty;
\* otherwise one cell naming u leaves n_edges[l] per occurrence of l among
\* the down-edges, the slot is emptied and nothing else changes; and a second
\* call changes nothing
DecommissionLaw(G, u) ==
  LET down == DownEdges(G, u)
      G1 == oc_decommission_node(G, u)
      G2 == oc_decommission_node(G1, u)
  IN /\ ~G1.aborted
     /\ G2 = G1
     /\ G.v_edges[u - G.mblocks] = NULL => G1 = G
     /\ G1.v_edges[u - G.mblocks] = NULL
     /\ G1.edge_count = G.edge_count
     /\ \A l \in DOMAIN G.n_edges :
          /\ Occurrences(G1.n_edges[l], u) = Occurrences(G.n_edges[l], u) - Occurrences(down, l)
          /\ Without(G1.n_edges[l], u) = Without(G.n_edges[l], u)
     /\ G1 = [G EXCEPT !.v_edges[u - G.mblocks] = NULL, !.n_edges = G1.n_edges]

\* C10: decommission is idempotent: on a node whose v-edge slot is empty it
\* changes nothing; on a node with v-edges it removes the reciprocal n-edge of
\* every remaining down-edge, empties the slot and leaves every edge_count.
C10_DecommissionIdempotent ==
  (Inited /\ ~graph.aborted) => \A u \in Uppers : DecommissionLaw(graph, u)

\* the resolver has decommissioned one node twice, and another node still
\* has down-edges a decommission would remove
C10_Witness ==
  /\ Inited /\ ~graph.aborted
  /\ \E u \in Uppers : decommissioned[u] >= 2
  /\ \E u \in Uppers : Len(DownEdges(graph, u)) >= 1

\* ------------------------------------------------------------------ C11
\* failed ingests modelled per graph: nodes runs at most this far past node_space
MaxOverflow == 2

\* the codecs of the capacity specification: one aux node, one map entry per
\* message (mblocks = 2 with fudge 1.5 gives node_space = coblocks + 3)
CapacityCodecs == {C \in Codecs : C.q = 1 /\ C.ablocks <= 1}

GraphInitCapacity ==
  /\ ~Inited
  /\ \E C \in CapacityCodecs, fudge \in Fudges :
       LET r == oc_graph_init(graph, C, fudge, ouser, null_ring) IN
       /\ graph' = r.g
       /\ codec' = IF r.rc = 0 THEN C ELSE codec
       /\ ouser' = r.ouser
       /\ null_ring' = r.null_ring
       /\ rv' = r.rc
       /\ emitted' = IF r.rc = 0 THEN [n \in 0..(C.coblocks - 1) |-> 0] ELSE emitted
       /\ decommissioned' = IF r.rc = 0 THEN [n \in C.mblocks..(r.g.node_space - 1) |-> 0]
                            ELSE decommissioned
  /\ last_call' = "init"
  /\ solved_list' = <<>>
  /\ ingested' = <<>>

\* oc_graph_check_block called whether or not node space is left
CheckBlockCapacity ==
  /\ Inited
  /\ ~graph.aborted
  /\ graph.nodes < graph.node_space + MaxOverflow
  /\ \E v \in CheckBlocks(graph) :
       LET r == oc_graph_check_block(graph, v) IN
       /\ graph' = r.g
       /\ rv' = r.rc
       /\ ingested' = IF r.rc >= 0 THEN Append(ingested, v) ELSE ingested
  /\ last_call' = "check_block"
  /\ UNCHANGED <<codec, ouser, null_ring, solved_list, emitted, decommissioned>>

NextCapacity == GraphInitCapacity \/ CheckBlockCapacity \/ Resolve

SpecCapacity == Init /\ [][NextCapacity]_vars

\* the aux nodes and the check nodes that exist in G
NodesOf(G) == G.mblocks..(MinOf({G.nodes, G.node_space}) - 1)

\* invariants 1-3 as predicates of a graph
EdgeCountsExactIn(G) ==
  \A u \in NodesOf(G) :
    G.v_edges[u - G.mblocks] # NULL => G.edge_count[u - G.mblocks] = UnsolvedEntries(G, u)

ReciprocalIn(G) ==
  \A u \in NodesOf(G), l \in 0..(G.coblocks - 1) :
    Occurrences(DownEdges(G, u), l) = Occurrences(G.n_edges[l], u)

UnsolvedCountIn(G) ==
  G.unsolved_count = Cardinality({m \in 0..(G.mblocks - 1) : ~G.solved[m]})

\* an ingest call succeeds, and returns the next node index, exactly while
\* node space is left; a failed call returns -1 and changes only the counter
\* of handed-out indices, so that an invariant that held before holds after
IngestOutcome ==
  IF graph.nodes < graph.node_space
  THEN /\ rv' = graph.nodes
       /\ Len(ingested') = Len(ingested) + 1
       /\ Len(ingested') = rv' - graph.coblocks + 1
  ELSE /\ rv' = -1
       /\ ingested' = ingested
       /\ Len(ingested) = graph.node_space - graph.coblocks
       /\ graph' = [graph EXCEPT !.nodes = @ + 1]
       /\ \A f \in {"v_edges", "n_edges", "edge_count", "solved", "xor_list",
                     "unsolved_count", "done", "pending"} : graph'[f] = graph[f]
       /\ EdgeCountsExactIn(graph) => EdgeCountsExactIn(graph')
       /\ ReciprocalIn(graph) => ReciprocalIn(graph')
       /\ UnsolvedCountIn(graph) => UnsolvedCountIn(graph')
       /\ ReciprocalIn(graph') /\ UnsolvedCountIn(graph')
       /\ graph.done = 0 => EdgeCountsExactIn(graph')

\* C11: capacity boundary: oc_graph_check_block succeeds for exactly the first
\* node_space - coblocks check blocks; an ingest attempted when the next node
\* index is >= node_space returns -1 and leaves v_edges, n_edges, edge_count,
\* the solved flags, the xor lists, unsolved_count, done and the pending queue
\* as they were, and invariants 1-3 hold after it as before it.
C11_CapacityBoundary == [][(last_call' = "check_block") => IngestOutcome]_vars

\* the fourth ingest into a graph with node_space = coblocks + 3 has failed,
\* with entries still queued and some nodes solved
C11_Witness ==
  /\ Inited /\ last_call = "check_block" /\ rv = -1
  /\ graph.node_space = graph.coblocks + 3 /\ Len(ingested) = 3
  /\ graph.nodes > graph.node_space
  /\ graph.pending # <<>>
  /\ \E n \in Lowers : graph.solved[n]

\* ------------------------------------------------------------------ C12
\* the successfully initialised graphs that have not finished
LiveGraphs == IF Inited /\ graph.done = 0 THEN 1 ELSE 0

\* C12 (as claimed): pool reference counting: under any interleaving of init,
\* ingest and resolve calls, further resolve calls on a graph that is already
\* done included, the pool's user counter is the number of successfully
\* initialised graphs that have not finished, and the pool ring is held
\* exactly while there is such a graph.
C12_PoolRefCount ==
  /\ ouser = LiveGraphs
  /\ null_ring <=> (LiveGraphs > 0)

\* ------------------------------------------------------------------ C13
\* fudge is held in tenths: 10 is 1.0
InvalidParams(C, fudge) ==
  C.mblocks < 1 \/ C.ablocks < 1 \/ fudge <= 10 \/ C.auxiliary = NULL

\* oc_graph_init with invalid parameters, called on the graph structure and
\* the pool as they are now, returns non-zero and changes neither
InitRejects ==
  \A C \in Codecs, fudge \in Fudges :
    InvalidParams(C, fudge) =>
      LET r == oc_graph_init(graph, C, fudge, ouser, null_ring) IN
      r.rc # 0 /\ r.g = graph /\ r.ouser = ouser /\ r.null_ring = null_ring

\* oc_graph_init with valid parameters returns 0
InitAccepts ==
  ~Inited =>
    \A C \in Codecs, fudge \in Fudges :
      ~InvalidParams(C, fudge) => oc_graph_init(graph, C, fudge, ouser, null_ring).rc = 0

\* an init call that returned non-zero left the graph and the pool alone; one
\* that returned 0 built a graph and took the pool
InitOutcome ==
  IF rv' # 0
  THEN graph' = graph /\ ouser' = ouser /\ null_ring' = null_ring /\ codec' = codec
  ELSE /\ codec'.mblocks >= 1 /\ codec'.ablocks >= 1 /\ codec'.auxiliary # NULL
       /\ graph'.mblocks = codec'.mblocks /\ graph'.ablocks = codec'.ablocks
       /\ graph'.unsolved_count = codec'.mblocks /\ graph'.done = 0
       /\ ouser' = ouser + 1 /\ null_ring'

\* C13: oc_graph_init with mblocks < 1, ablocks < 1, fudge <= 1.0 or a null
\* auxiliary map returns non-zero and has no effect: the graph structure is not
\* modified, no pool ring is made and the user counter is not incremented;
\* with valid parameters it returns 0.
C13_InitInvalidParams ==
  /\ [](InitRejects /\ InitAccepts)
  /\ [][(last_call' = "init") => InitOutcome]_vars

\* an init call with invalid parameters has just returned non-zero
C13_Witness ==
  /\ last_call = "init" /\ rv # 0
  /\ ~Inited /\ graph = ZeroGraph /\ ouser = 0 /\ ~null_ring

\* ------------------------------------------------------------------ C14
\* the loop states one oc_graph_resolve call on G goes through, pop by pop
ResolvePops(G) ==
  LET R0 == [g |-> G, solved_head |-> <<>>, decom |-> <<>>, stop |-> FALSE] IN
  IF G.pending = <<>> \/ G.unsolved_count = 0 THEN <<R0>> ELSE resolve_pops(R0)

CanResolve == Inited /\ ~graph.aborted

\* s is t with one occurrence of x taken out, in any order
IsBagMinus(s, t, x) ==
  /\ Len(s) = Len(t) - 1
  /\ \A l \in Range(t) : Occurrences(s, l) = Occurrences(t, l) - (IF l = x THEN 1 ELSE 0)

\* the pop that takes R to R1 fires the propagation rule when its node is a
\* check node or a solved aux node with edge_count 1
PropagationLaw(R, R1) ==
  LET G == R.g
      from == Head(G.pending)
      ep == DownEdges(G, from)
      un == {i \in 1..Len(ep) : ~G.solved[ep[i]]}
  IN
  (from >= G.mblocks /\ spent_node(G, from) /\ G.edge_count[from - G.mblocks] = 1) =>
    /\ ~R1.g.aborted
    /\ ep # <<>>
    /\ Cardinality(un) = 1
    /\ \A i \in un :
         LET to == ep[i]
             pre == G.xor_list[from]
             x == R1.g.xor_list[to]
         IN /\ R1.g.solved[to]
            /\ x # NULL /\ pre # NULL
            /\ Len(x) = Len(pre) + Len(ep) - 1
            /\ SubSeq(x, 1, Len(pre)) = pre
            /\ IsBagMinus(SubSeq(x, Len(pre) + 1, Len(x)), ep, to)
            /\ \A k \in (Len(pre) + 1)..Len(x) : G.solved[x[k]]
            /\ R1.solved_head = Append(R.solved_head, to)
            /\ (from >= G.coblocks /\ Len(ingested[from - G.coblocks + 1]) = 1) => x = <<from>>
    /\ R1.g.edge_count[from - G.mblocks] = 0
    /\ Decommissioned(R1.g, from)
    /\ R1.decom = Append(R.decom, from)

\* mblocks = 2, ablocks = 1, check node 3 = {0, 1}, check node 4 = {0}
Scenario3 ==
  /\ Inited /\ codec.mblocks = 2 /\ codec.ablocks = 1
  /\ ingested = <<(<<0, 1>>), (<<0>>)>>

\* C14: propagation rule: whenever the resolver pops a check node or a solved
\* aux node `from` with edge_count 1, v_edges[from] has exactly one unsolved
\* entry `to`; the step marks `to` solved, sets xor_list[to] to xor_list[from]
\* followed by the remaining, all solved, entries of v_edges[from], leaves
\* edge_count[from] at 0, decommissions `from` and emits `to`. A single-edge
\* check block c gives its node the recipe <<c>>, and in the scenario with
\* check nodes 3 = {0, 1} and 4 = {0}, msg 1 is solved with recipe <<3, 0>>.
C14_PropagationRule ==
  /\ CanResolve =>
       LET t == ResolvePops(graph) IN
       \A i \in 1..(Len(t) - 1) : PropagationLaw(t[i], t[i + 1])
  /\ (Scenario3 /\ graph.solved[1]) =>
       graph.xor_list[0] = <<4>> /\ graph.xor_list[1] = <<3, 0>>

\* the scenario has run: check node 3, left with one unsolved down-edge by the
\* cascade from msg 0, has just solved msg 1
C14_Witness ==
  /\ Scenario3 /\ last_call = "resolve" /\ solved_list = <<1>>
  /\ graph.solved[1] /\ graph.xor_list[1] = <<3, 0>>
  /\ decommissioned[3] = 1

\* ------------------------------------------------------------------ C15
IsUnsolvedAux(G, n) == n >= G.mblocks /\ n < G.coblocks /\ ~G.solved[n]

\* the pop that takes R to R1 fires the aux rule on an unsolved aux node with
\* edge_count 0: solved, recipe = v-edge list, slot emptied, its up-edges
\* deleted, emitted, and the cascade from it applied
AuxRuleLaw(R, R1) ==
  LET G == R.g
      H == R1.g
      from == Head(G.pending)
      ep == G.v_edges[from - G.mblocks]
      up == G.n_edges[from]
  IN
  (IsUnsolvedAux(G, from) /\ G.edge_count[from - G.mblocks] = 0) =>
    /\ ~H.aborted
    /\ ep # NULL
    /\ H.solved = [G.solved EXCEPT ![from] = TRUE]
    /\ H.xor_list = [G.xor_list EXCEPT ![from] = ep]
    /\ \A k \in 1..Len(ep) : ep[k] < G.mblocks /\ G.solved[ep[k]]
    /\ H.v_edges = [G.v_edges EXCEPT ![from - G.mblocks] = NULL]
    /\ \A l \in DOMAIN G.n_edges :
         /\ Occurrences(G.n_edges[l], from) = Occurrences(ep, l)
         /\ H.n_edges[l] = Without(G.n_edges[l], from)
    /\ R1.solved_head = Append(R.solved_head, from)
    /\ \A u \in DOMAIN G.edge_count :
         H.edge_count[u] = G.edge_count[u] - Occurrences(up, u + G.mblocks)
    /\ H.edge_count[from - G.mblocks] = 0
    /\ H.pending = Tail(G.pending)
                     \o SelectSeq(up, LAMBDA u : G.edge_count[u - G.mblocks] - 1 < 2)
    /\ H.unsolved_count = G.unsolved_count /\ H.done = G.done

\* the pop of an unsolved aux node with edge_count 1 only removes the entry
AuxSkipLaw(R, R1) ==
  LET G == R.g
      from == Head(G.pending)
  IN
  (IsUnsolvedAux(G, from) /\ G.edge_count[from - G.mblocks] = 1) =>
    /\ R1.g = [G EXCEPT !.pending = Tail(@)]
    /\ R1.solved_head = R.solved_head /\ R1.decom = R.decom

\* C15: auxiliary rule: a popped unsolved aux node with edge_count 0 is marked
\* solved, its v-edge list, all solved message nodes, becomes its recipe, its
\* slot is emptied, the up-edge l -> aux of every l of the recipe is deleted
\* with no edge_count changed by the deletion, it is emitted and the cascade
\* runs from it; a popped unsolved aux node with edge_count 1 is skipped with
\* no change to the graph but the removal of the queue entry.
C15_AuxRule ==
  CanResolve =>
    LET t == ResolvePops(graph) IN
    \A i \in 1..(Len(t) - 1) : AuxRuleLaw(t[i], t[i + 1]) /\ AuxSkipLaw(t[i], t[i + 1])

\* the aux rule has just solved an aux node, whose recipe is its former
\* v-edge list of message nodes, and the cascade from it has lowered the
\* count of a check node that lists it and queued that node
C15_Witness ==
  /\ CanResolve /\ last_call = "resolve" /\ Len(solved_list) = 1
  /\ LET a == solved_list[1] IN
       /\ a \in Auxes /\ graph.solved[a]
       /\ Len(graph.xor_list[a]) >= 1 /\ graph.xor_list[a][1] < graph.mblocks
       /\ graph.v_edges[a - graph.mblocks] = NULL
       /\ \E k \in 1..Len(graph.pending) :
            LET c == graph.pending[k] IN
            /\ c >= graph.coblocks
            /\ a \in Range(DownEdges(graph, c))
            /\ graph.edge_count[c - graph.mblocks] < Len(DownEdges(graph, c))

\* ------------------------------------------------------------------ C16
\* the postcondition of a successful oc_graph_check_block on down-edge list D
IngestPost(G, H, D, rc) ==
  LET node == G.nodes
      slot == node - G.mblocks
      sol == {l \in Range(D) : G.solved[l]}
      uns == {l \in Range(D) : ~G.solved[l]}
  IN /\ ~H.aborted
     /\ rc = node /\ H.nodes = node + 1
     /\ G.v_edges[slot] = NULL /\ G.xor_list[node] = NULL
     /\ Len(H.xor_list[node]) = Cardinality(sol) + 1
     /\ Head(H.xor_list[node]) = node
     /\ Range(Tail(H.xor_list[node])) = sol
     /\ Len(H.v_edges[slot]) = Cardinality(uns)
     /\ Range(H.v_edges[slot]) = uns
     /\ H.edge_count[slot] = Cardinality(uns)
     /\ \A l \in DOMAIN G.n_edges :
          H.n_edges[l] = IF l \in uns THEN <<node>> \o G.n_edges[l] ELSE G.n_edges[l]
     /\ H.pending = Append(G.pending, node)
     /\ H.v_edges = [G.v_edges EXCEPT ![slot] = H.v_edges[slot]]
     /\ H.edge_count = [G.edge_count EXCEPT ![slot] = H.edge_count[slot]]
     /\ H.xor_list = [G.xor_list EXCEPT ![node] = H.xor_list[node]]
     /\ H.solved = G.solved
     /\ H.unsolved_count = G.unsolved_count /\ H.done = G.done

\* down-edge lists in any order: distinct lower nodes, at most MaxDeg of them
CheckBlockLists(G) ==
  UNION {{D \in [1..n -> 0..(G.coblocks - 1)] : \A a, b \in 1..n : a # b => D[a] # D[b]} :
           n \in 1..MaxDeg}

IngestPostAnyOrder ==
  CanIngest =>
    \A D \in CheckBlockLists(graph) :
      LET r == oc_graph_check_block(graph, D) IN IngestPost(graph, r.g, D, r.rc)

\* C16: check-block ingest postcondition: a successful oc_graph_check_block on
\* D takes the next unused check index `node`, sets xor_list[node] to node
\* followed by the already solved entries of D, leaves in v_edges[node] exactly
\* the unsolved entries of D, edge_count their number, prepends one n-edge
\* cell naming node to n_edges[l] for each unsolved l and none for a solved
\* one, appends node to the tail of the pending queue and returns node; no
\* other node's v_edges, edge_count, solved flag or xor_list changes.
C16_IngestPost ==
  /\ []IngestPostAnyOrder
  /\ [][(last_call' = "check_block" /\ rv' >= 0) =>
          IngestPost(graph, graph', ingested'[Len(ingested')], rv')]_vars

\* a block with one solved and one unsolved down-edge has just been ingested
\* behind an entry that was already queued
C16_Witness ==
  /\ Inited /\ last_call = "check_block" /\ rv = graph.nodes - 1 /\ rv >= graph.coblocks
  /\ Len(ingested[Len(ingested)]) = 2
  /\ Len(graph.xor_list[rv]) = 2
  /\ Len(DownEdges(graph, rv)) = 1
  /\ graph.n_edges[DownEdges(graph, rv)[1]][1] = rv
  /\ Len(graph.pending) >= 2 /\ graph.pending[Len(graph.pending)] = rv

\* ------------------------------------------------------------------ C17
\* scenario 2: msg0 -> (4,5), msg1 -> (4,4), msg2 -> (5,4), msg3 -> (5,5)
Scenario2Codec ==
  [mblocks |-> 4, ablocks |-> 2, coblocks |-> 6, q |-> 2, e |-> 1,
   auxiliary |-> <<4, 5, 4, 4, 5, 4, 5, 5>>]

Scenario2Blocks == {<<0>>, <<1>>, <<4>>, <<2>>}

GraphInitScenario2 ==
  /\ ~Inited
  /\ \E fudge \in Fudges :
       LET C == Scenario2Codec
           r == oc_graph_init(graph, C, fudge, ouser, null_ring)
       IN
       /\ graph' = r.g
       /\ codec' = IF r.rc = 0 THEN C ELSE codec
       /\ ouser' = r.ouser
       /\ null_ring' = r.null_ring
       /\ rv' = r.rc
       /\ emitted' = IF r.rc = 0 THEN [n \in 0..(C.coblocks - 1) |-> 0] ELSE emitted
       /\ decommissioned' = IF r.rc = 0 THEN [n \in C.mblocks..(r.g.node_space - 1) |-> 0]
                            ELSE decommissioned
  /\ last_call' = "init"
  /\ solved_list' = <<>>
  /\ ingested' = <<>>

CheckBlockScenario2 ==
  /\ Inited
  /\ ~graph.aborted
  /\ graph.nodes < graph.node_space
  /\ \E v \in Scenario2Blocks :
       LET r == oc_graph_check_block(graph, v) IN
       /\ graph' = r.g
       /\ rv' = r.rc
       /\ ingested' = IF r.rc >= 0 THEN Append(ingested, v) ELSE ingested
  /\ last_call' = "check_block"
  /\ UNCHANGED <<codec, ouser, null_ring, solved_list, emitted, decommissioned>>

NextScenario2 == GraphInitScenario2 \/ CheckBlockScenario2 \/ Resolve

SpecScenario2 == Init /\ [][NextScenario2]_vars

SolvedMessages == {m \in Messages : graph.solved[m]}

\* the check blocks fed so far, all of them resolved
Fed(blocks) == Inited /\ ingested = blocks /\ graph.pending = <<>>

\* init gives aux 4 the down-edges {0,1,1,2} and aux 5 the down-edges {0,2,3,3}
Scenario2Edges ==
  (Inited /\ last_call = "init") =>
    /\ \A l \in Messages :
         /\ Occurrences(DownEdges(graph, 4), l) = Occurrences(<<0, 1, 1, 2>>, l)
         /\ Occurrences(DownEdges(graph, 5), l) = Occurrences(<<0, 2, 3, 3>>, l)
    /\ graph.edge_count[0] = 4 /\ graph.edge_count[1] = 4

\* C17 (as claimed): scenario 2: after ingesting {0}, {1} and then {4} and
\* resolving until the pending queue is empty the solved message nodes are
\* exactly 0 and 1, the check block {4} solving no new message node, and msg 2
\* is solved only after the check block {2} is fed.
C17_Scenario2AsClaimed ==
  /\ Scenario2Edges
  /\ Fed(<<(<<0>>), (<<1>>), (<<4>>)>>) => SolvedMessages = {0, 1}
  /\ (Inited /\ graph.solved[2]) => \E k \in 1..Len(ingested) : ingested[k] = <<2>>

\* C17 (amended): scenario 2: after {0} and {1} are resolved the solved message
\* nodes are 0 and 1; after {4} is fed as well and resolved, aux 4 is solved
\* by check node 8 and, left with msg 2 as its one unsolved down-edge, solves
\* msg 2 by propagation, so that the solved message nodes are 0, 1 and 2 with
\* no check block {2} fed; msg 3 and aux 5 stay unsolved.
C17_Scenario2 ==
  /\ Scenario2Edges
  /\ Fed(<<(<<0>>), (<<1>>)>>) =>
       SolvedMessages = {0, 1} /\ ~graph.solved[4] /\ graph.edge_count[0] = 1
  /\ Fed(<<(<<0>>), (<<1>>), (<<4>>)>>) =>
       /\ SolvedMessages = {0, 1, 2}
       /\ graph.solved[4] /\ graph.xor_list[4] = <<8>>
       /\ Len(graph.xor_list[2]) = 4 /\ Head(graph.xor_list[2]) = 8
       /\ \A l \in Messages :
            Occurrences(Tail(graph.xor_list[2]), l) = Occurrences(<<0, 1, 1>>, l)
       /\ ~graph.solved[5] /\ graph.done = 0

\* {0}, {1} and {4} have been fed and resolved, and msg 2 is solved
C17_Witness ==
  /\ Fed(<<(<<0>>), (<<1>>), (<<4>>)>>) /\ last_call = "resolve"
  /\ graph.solved[2] /\ graph.solved[4] /\ emitted[2] = 1

\* ------------------------------------------------------------------ C18
\* C18 (as claimed): resolver step 1: an oc_graph_resolve call made while the
\* pending queue is empty returns 0, emits an empty solved list and changes no
\* graph or pool state; a call made with a non-empty queue while
\* unsolved_count is 0 sets done and returns 1 without popping or solving
\* anything.
C18_ResolveStep1 ==
  CanResolve =>
    LET r == oc_graph_resolve(graph, ouser, null_ring) IN
    /\ graph.pending = <<>> =>
         /\ r.rc = 0 /\ r.solved_list = <<>>
         /\ r.g = graph
         /\ r.ouser = ouser /\ r.null_ring = null_ring
    /\ (graph.pending # <<>> /\ graph.unsolved_count = 0) =>
         /\ r.rc = 1 /\ r.solved_list = <<>>
         /\ r.g = [graph EXCEPT !.done = 1]

\* ------------------------------------------------------------------ C19
StartsWith(t, s) == Len(s) <= Len(t) /\ SubSeq(t, 1, Len(s)) = s

\* the pop that takes R to R1 only discards an unfireable or stale entry:
\* nothing is solved or emitted and no count changes
DiscardOnly(R, R1) ==
  LET G == R.g
      from == Head(G.pending)
      count == G.edge_count[from - G.mblocks]
  IN /\ R1.solved_head = R.solved_head
     /\ R1.g.pending = Tail(G.pending)
     /\ R1.g.solved = G.solved /\ R1.g.xor_list = G.xor_list
     /\ R1.g.edge_count = G.edge_count /\ R1.g.unsolved_count = G.unsolved_count
     /\ \/ count > 1
        \/ count = 1 /\ IsUnsolvedAux(G, from)
        \/ count = 0 /\ spent_node(G, from)

\* what every call shares: at most one node solved, by the last pop, after
\* pops that only discard
SteppingCommon(t, r) ==
  LET n == Len(t) IN
  /\ ~r.g.aborted
  /\ r.solved_list = t[n].solved_head
  /\ Len(r.solved_list) <= 1
  /\ \A i \in 1..(n - 2) : DiscardOnly(t[i], t[i + 1])
  /\ r.solved_list = <<>> => \A i \in 1..(n - 1) : DiscardOnly(t[i], t[i + 1])
  /\ r.solved_list # <<>> => n >= 2 /\ r.g.solved[r.solved_list[1]]

\* the solved node's cascade is applied and the rest of the queue is in place
CascadedQueueKept(t, r) ==
  /\ StartsWith(r.g.pending, Tail(t[Len(t) - 1].g.pending))
  /\ EdgeCountsExactIn(r.g)

\* C19 (as claimed): stepping mode: every oc_graph_resolve call emits at most
\* one node; it returns right after the first node it solves, with that
\* node's cascade applied, having only discarded the entries popped before it
\* and leaving the rest of the pending queue in place; a call that solves
\* nothing returns only when the queue is empty.
C19_SteppingAsClaimed ==
  CanResolve =>
    LET t == ResolvePops(graph)
        r == oc_graph_resolve(graph, ouser, null_ring)
    IN /\ SteppingCommon(t, r)
       /\ r.solved_list # <<>> => CascadedQueueKept(t, r)
       /\ r.solved_list = <<>> => r.g.pending = <<>>

\* C19 (amended): the same, but for the two exits on done: the call that
\* solves the last unsolved message node sets done and flushes the queue with
\* no cascade, and a call made with a non-empty queue when unsolved_count is
\* already 0 returns at once, done set, the queue as it was.
C19_Stepping ==
  CanResolve =>
    LET t == ResolvePops(graph)
        r == oc_graph_resolve(graph, ouser, null_ring)
    IN /\ SteppingCommon(t, r)
       /\ r.solved_list # <<>> =>
            IF r.g.done = 0 THEN CascadedQueueKept(t, r)
            ELSE /\ r.solved_list[1] < graph.mblocks
                 /\ r.g.unsolved_count = 0 /\ graph.unsolved_count = 1
                 /\ r.g.pending = <<>>
       /\ r.solved_list = <<>> =>
            \/ r.g.pending = <<>>
            \/ /\ graph.unsolved_count = 0 /\ r.g.done = 1 /\ r.rc = 1
               /\ r.g.pending = graph.pending

\* a call has just solved one node and returned with entries left queued
C19_Witness ==
  /\ CanResolve /\ last_call = "resolve" /\ Len(solved_list) = 1
  /\ graph.done = 0 /\ Len(graph.pending) >= 2
  /\ \E u \in Uppers : decommissioned[u] >= 1

\* ------------------------------------------------------------------ C20
\* the enabling condition of <<Resolve>>_vars: a call can be made and would
\* change the state
ResolveEnabled ==
  /\ Inited /\ ~graph.aborted /\ ouser > -MaxOverRelease
  /\ LET r == oc_graph_resolve(graph, ouser, null_ring) IN
     <<r.g, r.solved_list, r.rc, r.ouser, r.null_ring,
       Bump(emitted, r.solved_list), Bump(decommissioned, r.decom), "resolve">>
       # <<graph, solved_list, rv, ouser, null_ring, emitted, decommissioned, last_call>>

\* weak fairness of Resolve, written out with its enabling condition as a
\* state predicate: the caller keeps calling oc_graph_resolve
ResolveFair == []<>(~ResolveEnabled) \/ []<><<Resolve>>_vars

SpecFair == Init /\ [][Next]_vars /\ ResolveFair

\* one oc_graph_resolve call pops at most the entries queued when it starts
CallBound ==
  CanResolve => Len(ResolvePops(graph)) - 1 <= Len(graph.pending)

\* what is left to do: the unsolved message and aux nodes, each worth more
\* than the entries one solving step can queue, and the queued entries
Rank(G) ==
  Cardinality({n \in 0..(G.coblocks - 1) : ~G.solved[n]}) * (G.node_space + codec.q + 2)
    + Len(G.pending)

\* a call that finds work lowers the rank; one that solves nothing queues nothing
RankFalls ==
  (last_call' = "resolve" /\ graph.pending # <<>> /\ graph.unsolved_count > 0) =>
    /\ Rank(graph') < Rank(graph)
    /\ solved_list' = <<>> => Len(graph'.pending) < Len(graph.pending)

Quiescent == graph.pending = <<>> \/ graph.done = 1

\* C20: termination: every oc_graph_resolve call terminates, and repeated
\* calls reach, after finitely many calls, a state where the pending queue is
\* empty or done is set: the resolver cannot re-enqueue nodes forever.
C20_Termination ==
  /\ []CallBound
  /\ [][RankFalls]_vars
  /\ (Inited /\ ~Quiescent) ~> Quiescent

\* repeated calls have drained the queue, solving two nodes and dropping a
\* stale entry on the way, before every message is solved
C20_Witness ==
  /\ Inited /\ last_call = "resolve" /\ graph.pending = <<>> /\ graph.done = 0
  /\ Cardinality({n \in Lowers : emitted[n] = 1}) >= 2
  /\ \E u \in Uppers : decommissioned[u] >= 1
  /\ Len(ingested) >= 2

\* ------------------------------------------------------------------ C21
\* upper node u could fire the propagation rule: a check node or a solved aux
\* node with a non-empty v-edge slot and edge_count 1
CanPropagate(G, u) ==
  /\ u >= G.coblocks \/ G.solved[u]
  /\ G.v_edges[u - G.mblocks] # NULL
  /\ G.edge_count[u - G.mblocks] = 1

\* aux node a could fire the aux rule: unsolved, with a down-edge, edge_count 0
CanAuxRule(G, a) ==
  /\ a < G.coblocks /\ ~G.solved[a]
  /\ Len(DownEdges(G, a)) >= 1
  /\ G.edge_count[a - G.mblocks] = 0

\* C21: no lost wake-ups: in every state before done in which the pending
\* queue is empty no rule is applicable: no check node or solved aux node has
\* a non-empty v-edge slot and edge_count 1, and no unsolved aux node with a
\* down-edge has edge_count 0; every node that can fire is in the queue.
C21_NoLostWakeups ==
  (Inited /\ ~graph.aborted /\ graph.done = 0) =>
    \A u \in Uppers :
      (CanPropagate(graph, u) \/ CanAuxRule(graph, u)) =>
        \E k \in 1..Len(graph.pending) : graph.pending[k] = u

\* the queue has been drained before done: nodes were solved on the way, an
\* aux node among them, and a node that cannot fire yet keeps its down-edges
C21_Witness ==
  /\ Inited /\ last_call = "resolve" /\ graph.done = 0 /\ graph.pending = <<>>
  /\ \E a \in Auxes : graph.solved[a]
  /\ \E m \in Messages : graph.solved[m]
  /\ \E u \in Uppers :
       graph.v_edges[u - graph.mblocks] # NULL /\ graph.edge_count[u - graph.mblocks] >= 2

\* ------------------------------------------------------------------ C22
\* the cascade from lower node l finds a count of at least 1 at every cell
CascadeReady(G, l, cells) ==
  \A u \in Range(cells) :
    u # l /\ G.edge_count[u - G.mblocks] >= Occurrences(cells, u)

\* every down-edge of u has its reciprocal cell, so that each deletion finds it
EdgesFound(G, u, down) ==
  \A l \in Range(down) : u > l /\ Occurrences(G.n_edges[l], u) >= Occurrences(down, l)

\* what the assertions ask of the loop state R at a pop
PopAsserts(R) ==
  LET G == R.g
      from == Head(G.pending)
      count == G.edge_count[from - G.mblocks]
      ep == G.v_edges[from - G.mblocks]
  IN /\ from >= G.mblocks
     /\ count >= 0
     /\ (count = 0 /\ spent_node(G, from)) => EdgesFound(G, from, DownEdges(G, from))
     /\ (count = 0 /\ ~spent_node(G, from)) =>
          /\ ep # NULL
          /\ EdgesFound(G, from, ep)
          /\ CascadeReady(G, from, G.n_edges[from])
     /\ (count = 1 /\ spent_node(G, from)) =>
          /\ ep # NULL /\ G.xor_list[from] # NULL
          /\ \E i \in 1..Len(ep) : ~G.solved[ep[i]]
          /\ \A i \in 1..Len(ep) :
               ~G.solved[ep[i]] =>
                 /\ G.xor_list[ep[i]] = NULL
                 /\ from > ep[i] /\ from \in Range(G.n_edges[ep[i]])
                 /\ G.unsolved_count > 1 \/ ep[i] >= G.mblocks =>
                      CascadeReady(G, ep[i], Without(G.n_edges[ep[i]], from))

\* no call that can be made next fails an assertion
NextCallsAssertFree ==
  /\ CanIngest =>
       \A D \in CheckBlockLists(graph) : ~oc_graph_check_block(graph, D).g.aborted
  /\ LET t == ResolvePops(graph) IN
       \A i \in 1..Len(t) :
         /\ ~t[i].g.aborted
         /\ i < Len(t) => PopAsserts(t[i])

\* C22: assertion validity: for any successful init and any sequence of
\* ingests of check blocks with distinct down-edges in [0, coblocks)
\* interleaved with resolve calls no assertion fails: every edge_count stays
\* >= 0 and is >= 1 when a cascade or a decrementing deletion is about to
\* decrement it, oc_delete_n_edge finds the up-edge it is to delete, every
\* popped node is >= mblocks, a node firing the propagation rule has a
\* non-null v-edge list, and its target is unsolved with a null xor_list.
C22_AssertionsHold ==
  Inited =>
    /\ ~graph.aborted
    /\ \A u \in DOMAIN graph.edge_count : graph.edge_count[u] >= 0
    /\ NextCallsAssertFree

\* the asserting paths have all run without a failure: an aux node solved by
\* the aux rule, a node solved by propagation, a node decommissioned twice
C22_Witness ==
  /\ Inited /\ ~graph.aborted /\ last_call = "resolve"
  /\ \E a \in Auxes : graph.solved[a] /\ graph.xor_list[a][1] < graph.mblocks
  /\ \E n \in Lowers : graph.solved[n] /\ graph.xor_list[n][1] >= graph.coblocks
  /\ \E u \in Uppers : decommissioned[u] >= 2

====
